---- MODULE Spec2Model ----
(***************************************************************************)
(* Standings derivation pipeline of jesslinning/realignment (backend):     *)
(* raw schedule rows -> one row per team per game -> season aggregates ->  *)
(* upsert into team_game_scores / team_standings, with a scrape_logs audit *)
(* row per current-season or all-seasons scrape.                           *)
(*                                                                         *)
(* Not modelled: the gametime column (copied verbatim, read by no          *)
(* decision), the scrape_date / last_updated timestamps, and the HTTP      *)
(* and scheduler wiring around the service functions.                      *)
(***************************************************************************)
EXTENDS Integers, Sequences, FiniteSets

\* ------------------------------------------------------------------ bounds

\* Longest raw schedule handed to create_game_scores_dataframe on its own.
MaxRaw == 2
\* Number of refresh operations (scrapes) a behaviour may start.
MaxRefreshes == 2
\* Rows of team_standings a reader is given.
MaxStored == 2
\* Commits of a ScrapeLog row that the storage may fail in one behaviour.
MaxLogFaults == 1

\* ------------------------------------------------------- the data universe

\* A null (NaN) score of a raw schedule row: the game is not completed.
NaN == -1

Seasons == {2023, 2024}
Scores == {0, 1}
GameTypes == {"REG", "POST"}

\* Team codes in the order pandas' groupby sorts them.
TeamOrder == <<"DAL", "KC", "PIT">>

\* The rows of REALIGNMENT_DATA for the teams of the model.
REALIGNMENT_DATA ==
  << [team |-> "DAL", conference |-> "People", division |-> "People with Jobs", name |-> "Cowboys"],
     [team |-> "KC",  conference |-> "People", division |-> "People",           name |-> "Chiefs"],
     [team |-> "PIT", conference |-> "People", division |-> "People with Jobs", name |-> "Steelers"] >>

\* A report of the provider for one fixture: not yet played (null scores),
\* or final on a gameday with a score.
Unplayed == [gameday |-> 1, home_score |-> NaN, away_score |-> NaN]
Final(d, hs, as) == [gameday |-> d, home_score |-> hs, away_score |-> as]

\* The fixtures of the upstream schedule, in the order the provider lists
\* them, each with what the provider may report for it at a fetch. A fixture
\* of the running season may come back with a corrected score or on another
\* gameday than at an earlier fetch.
Fixtures ==
  << [season |-> 2023, home_team |-> "PIT", away_team |-> "DAL",
      reports |-> {Unplayed, Final(1, 1, 0)}],
     [season |-> 2024, home_team |-> "DAL", away_team |-> "PIT",
      reports |-> {Unplayed, Final(1, 1, 0), Final(1, 1, 1), Final(2, 1, 0)}],
     [season |-> 2024, home_team |-> "KC",  away_team |-> "DAL",
      reports |-> {Unplayed, Final(1, 0, 1), Final(2, 0, 1)}] >>

RawGame(f, d, hs, as, gt) ==
  [season |-> f.season, gameday |-> d, home_team |-> f.home_team,
   away_team |-> f.away_team, home_score |-> hs, away_score |-> as,
   game_type |-> gt]

\* ------------------------------------------------------------ sequence helpers

Range(s) == {s[i] : i \in 1..Len(s)}

RECURSIVE Concat(_)
Concat(ss) == IF ss = << >> THEN << >> ELSE Head(ss) \o Concat(Tail(ss))

RECURSIVE SumSeq(_)
SumSeq(s) == IF s = << >> THEN 0 ELSE Head(s) + SumSeq(Tail(s))

RECURSIVE GCD(_, _)
GCD(a, b) == IF b = 0 THEN a ELSE GCD(b, a % b)

\* ------------------------------------------------------------ Outcome Deriver

\* bool.astype(int)
AsInt(b) == IF b THEN 1 ELSE 0

\* A filter that forgets the game type.
Retained_AnyType(g) ==
  /\ g.home_score # NaN
  /\ g.away_score # NaN

\* The filter of create_game_scores_dataframe: a completed regular season game.
Retained(g) ==
  /\ g.home_score # NaN
  /\ g.away_score # NaN
  /\ g.game_type = "REG"

\* One side's row of a retained game (keep_cols without gametime).
SideRow(g, side1) ==
  LET team     == IF side1 = "home" THEN g.home_team ELSE g.away_team
      opponent == IF side1 = "home" THEN g.away_team ELSE g.home_team
      score    == IF side1 = "home" THEN g.home_score ELSE g.away_score
      oscore   == IF side1 = "home" THEN g.away_score ELSE g.home_score
  IN [season |-> g.season, gameday |-> g.gameday, team |-> team,
      opponent |-> opponent, score |-> score, opponent_score |-> oscore,
      is_win  |-> AsInt(score > oscore),
      is_loss |-> AsInt(score < oscore),
      is_tie  |-> AsInt(score = oscore)]

\* An away row that swaps the teams but not the scores.
SideRowAway_Unswapped(g) ==
  [SideRow(g, "home") EXCEPT !.team = g.away_team, !.opponent = g.home_team]

SideRowHome(g) == SideRow(g, "home")
SideRowAway(g) == SideRow(g, "away")

\* All home-side rows of the retained games, then all away-side rows.
create_game_scores_dataframe(scores) ==
  LET kept == SelectSeq(scores, Retained)
  IN IF kept = << >> THEN << >>
     ELSE [i \in 1..Len(kept) |-> SideRowHome(kept[i])] \o [i \in 1..Len(kept) |-> SideRowAway(kept[i])]

\* --------------------------------------------------------- Standings Aggregator

\* A percentage that counts a tie as nothing: is_win / games.
Pct_TieAsLoss(w, l, t) ==
  LET n == w + l + t
      g == GCD(w, n)
  IN IF n = 0 THEN <<0, 1>> ELSE <<w \div g, n \div g>>

\* (is_win + is_tie / 2) / (is_win + is_loss + is_tie) as a fraction in lowest
\* terms <<numerator, denominator>>; 0/0 is NaN, which fillna turns into 0.0.
Pct(w, l, t) ==
  LET n == w + l + t
      g == GCD(2 * w + t, 2 * n)
  IN IF n = 0 THEN <<0, 1>> ELSE <<(2 * w + t) \div g, (2 * n) \div g>>

\* The group of one (season, team): the sums of the three flags and pct.
GroupRow(game_scores, season, team) ==
  LET grp == SelectSeq(game_scores, LAMBDA r : r.season = season /\ r.team = team)
      w == SumSeq([i \in 1..Len(grp) |-> grp[i].is_win])
      l == SumSeq([i \in 1..Len(grp) |-> grp[i].is_loss])
      t == SumSeq([i \in 1..Len(grp) |-> grp[i].is_tie])
  IN [season |-> season, team |-> team, is_win |-> w, is_loss |-> l,
      is_tie |-> t, pct |-> Pct(w, l, t)]

SeasonOrder == <<2023, 2024>>

\* groupby(['season', 'team']): one row per key present, keys in sorted order.
calculate_standings_from_scores(game_scores) ==
  IF game_scores = << >> THEN << >>
  ELSE LET keys == Concat([i \in 1..Len(SeasonOrder) |->
                      [j \in 1..Len(TeamOrder) |-> <<SeasonOrder[i], TeamOrder[j]>>]])
           present == SelectSeq(keys, LAMBDA k :
                        \E r \in Range(game_scores) : r.season = k[1] /\ r.team = k[2])
       IN [i \in 1..Len(present) |-> GroupRow(game_scores, present[i][1], present[i][2])]

\* ---------------------------------------------------------------- the state

VARIABLES
  team_realignment,   \* table team_realignment: a set of rows, team unique
  team_game_scores,   \* table team_game_scores: a set of rows, unique on
                      \* (season, gameday, team) (uq_team_game_score)
  team_standings,     \* table team_standings: rows in id order (id = position);
                      \* no unique constraint on (season, team)
  scrape_logs,        \* table scrape_logs: rows in id order
  scores,             \* the raw schedule the last operation loaded
  game_scores_df,     \* what create_game_scores_dataframe made of it
  result,             \* what the last operation returned or raised
  nrefresh,           \* refresh operations started so far
  now_year,           \* datetime.now().year
  pre,                \* history: the schedule loaded by the operation before the
                      \* last one, and the tables as the last one found them
  sess,               \* the transaction of each concurrently running refresh
  response,           \* what the last read operation returned, or the
                      \* arguments of the last call of initialize_realignment
  log_faults          \* commits of a ScrapeLog row the storage will still fail

vars == <<team_realignment, team_game_scores, team_standings, scrape_logs,
          scores, game_scores_df, result, nrefresh, now_year, pre, sess,
          response, log_faults>>

db == <<team_realignment, team_game_scores, team_standings, scrape_logs>>

\* ------------------------------------------------------ the fetch collaborator

MostRecent == 2024

RECURSIVE Schedules(_)
Schedules(fs) ==
  IF fs = << >> THEN {<< >>}
  ELSE {<<RawGame(Head(fs), st.gameday, st.home_score, st.away_score, "REG")>> \o rest :
          st \in Head(fs).reports, rest \in Schedules(Tail(fs))}


\* nfl.load_schedules(seasons=...) for the set of seasons asked for: None is
\* {MostRecent}, True is every season, an integer is that season.
load_schedules(seasons) ==
  Schedules(SelectSeq(Fixtures, LAMBDA f : f.season \in seasons))

\* ------------------------------------------------------- Persistence Reconciler

GameKey(r) == <<r.season, r.gameday, r.team>>
\* An update that writes the scores and leaves the flags.
GameCols_ScoresOnly == {"score", "opponent", "opponent_score"}
GameCols == {"score", "opponent", "opponent_score", "is_win", "is_loss", "is_tie"}
StandingCols == {"wins", "losses", "ties", "win_pct"}

\* The UPDATE the unit of work emits for a dirty object: the columns whose
\* new value differs from the loaded one, written over the row as it is now.
Flushed(current, loaded, new, cols) ==
  [f \in DOMAIN current |->
     IF f \in cols /\ new[f] # loaded[f] THEN new[f] ELSE current[f]]

\* The last row of the frame with the key of g: the loop assigns each in turn.
LastWithKey(rows, k) ==
  LET idx == {i \in 1..Len(rows) : GameKey(rows[i]) = k}
  IN rows[CHOOSE i \in idx : \A j \in idx : j <= i]

\* The game loop of scrape_season against the stored rows it reads: the
\* objects it dirties, and the new objects it adds (autoflush is off, so a
\* pending object is not found by a later query).
GameUpdates(games, rows) ==
  {[loaded |-> g, new |-> LastWithKey(rows, GameKey(g))] :
     g \in {x \in games : \E i \in 1..Len(rows) : GameKey(rows[i]) = GameKey(x)}}

GameInserts(games, rows) ==
  SelectSeq(rows, LAMBDA r : ~ \E g \in games : GameKey(g) = GameKey(r))

\* A new row whose in-division columns are filled with the overall totals.
NewStanding_AllInDivision(row) ==
  [season |-> row.season, team |-> row.team, wins |-> row.is_win,
   losses |-> row.is_loss, ties |-> row.is_tie, win_pct |-> row.pct,
   in_division_wins |-> row.is_win, in_division_losses |-> row.is_loss,
   in_division_ties |-> row.is_tie, in_division_win_pct |-> row.pct]

\* TeamStanding(...) of a standings row: the in-division columns take their
\* column default.
NewStanding(row) ==
  [season |-> row.season, team |-> row.team, wins |-> row.is_win,
   losses |-> row.is_loss, ties |-> row.is_tie, win_pct |-> row.pct,
   in_division_wins |-> 0, in_division_losses |-> 0, in_division_ties |-> 0,
   in_division_win_pct |-> <<0, 1>>]

\* An update that adds the new totals to the stored ones.
UpdatedStanding_Incremented(existing, row) ==
  [existing EXCEPT !.wins = existing.wins + row.is_win,
                   !.losses = existing.losses + row.is_loss,
                   !.ties = existing.ties + row.is_tie,
                   !.win_pct = Pct(existing.wins + row.is_win,
                                   existing.losses + row.is_loss,
                                   existing.ties + row.is_tie)]

\* existing.wins = ...: the four overall columns of an existing row.
UpdatedStanding(existing, row) ==
  [existing EXCEPT !.wins = row.is_win, !.losses = row.is_loss,
                   !.ties = row.is_tie, !.win_pct = row.pct]

\* A lookup by team alone, whatever the season of the stored row.
FirstStanding_AnySeason(standings, row) ==
  LET ids == {i \in 1..Len(standings) : standings[i].team = row.team}
  IN IF ids = {} THEN {0} ELSE ids

\* query(TeamStanding).filter(season, team).first(): the ids it may return, 0
\* for None. With several rows of the key the one returned is unspecified.
FirstStanding(standings, row) ==
  LET ids == {i \in 1..Len(standings) :
                standings[i].season = row.season /\ standings[i].team = row.team}
  IN IF ids = {} THEN {0} ELSE ids

RECURSIVE StandingLookups(_, _)
StandingLookups(standings, sdf) ==
  IF sdf = << >> THEN {<< >>}
  ELSE {<<id>> \o rest : id \in FirstStanding(standings, Head(sdf)),
                         rest \in StandingLookups(standings, Tail(sdf))}

StandingUpdates(standings, sdf, found) ==
  {[id |-> found[i], loaded |-> standings[found[i]],
    new |-> UpdatedStanding(standings[found[i]], sdf[i])] :
     i \in {j \in 1..Len(sdf) : found[j] # 0}}

StandingInserts(sdf, found) ==
  LET idx == SelectSeq([i \in 1..Len(sdf) |-> i], LAMBDA i : found[i] = 0)
  IN [k \in 1..Len(idx) |-> NewStanding(sdf[idx[k]])]

NoTxn == [gupd |-> {}, gins |-> << >>, supd |-> {}, sins |-> << >>]

\* db.commit() of the batch: the flush raises IntegrityError when an INSERT
\* breaks uq_team_game_score, and the transaction is then rolled back.
CommitOK(games, txn) ==
  /\ \A i, j \in 1..Len(txn.gins) :
       GameKey(txn.gins[i]) = GameKey(txn.gins[j]) => i = j
  /\ \A i \in 1..Len(txn.gins) :
       ~ \E g \in games : GameKey(g) = GameKey(txn.gins[i])

\* A commit that keeps only the rows of the batch.
CommittedGames_Replaced(games, txn) ==
  {Flushed(u.loaded, u.loaded, u.new, GameCols) : u \in txn.gupd}
    \cup Range(txn.gins)

CommittedGames(games, txn) ==
  {IF \E u \in txn.gupd : GameKey(u.loaded) = GameKey(g)
   THEN LET u == CHOOSE x \in txn.gupd : GameKey(x.loaded) = GameKey(g)
        IN Flushed(g, u.loaded, u.new, GameCols)
   ELSE g : g \in games}
    \cup Range(txn.gins)

CommittedStandings(standings, txn) ==
  [i \in 1..Len(standings) |->
     IF \E u \in txn.supd : u.id = i
     THEN LET u == CHOOSE x \in txn.supd : x.id = i
          IN Flushed(standings[i], u.loaded, u.new, StandingCols)
     ELSE standings[i]] \o txn.sins

\* The batch one refresh builds from its two frames, the stored game rows it
\* read and the standings rows its lookups returned.
Batch(games, standings, df, sdf, found) ==
  [gupd |-> GameUpdates(games, df), gins |-> GameInserts(games, df),
   supd |-> StandingUpdates(standings, sdf, found),
   sins |-> StandingInserts(sdf, found)]

\* A reconciliation that counts the standings rows it inserted.
Reconcile_CountsInserts(games, standings, df, sdf, found) ==
  IF df = << >>
  THEN [status |-> "empty", games |-> games, standings |-> standings,
        records_updated |-> 0]
  ELSE LET txn == Batch(games, standings, df, sdf, found)
       IN IF CommitOK(games, txn)
          THEN [status |-> "committed", games |-> CommittedGames(games, txn),
                standings |-> CommittedStandings(standings, txn),
                records_updated |-> Len(txn.sins)]
          ELSE [status |-> "IntegrityError", games |-> games,
                standings |-> standings, records_updated |-> 0]

\* The two loops and the commit of scrape_season (and the same lines of
\* scrape_all_seasons) run in one piece: "empty" (no retained game, nothing
\* done), "committed", or "IntegrityError" (the commit raised, rolled back).
Reconcile(games, standings, df, sdf, found) ==
  IF df = << >>
  THEN [status |-> "empty", games |-> games, standings |-> standings,
        records_updated |-> 0]
  ELSE LET txn == Batch(games, standings, df, sdf, found)
       IN IF CommitOK(games, txn)
          THEN [status |-> "committed", games |-> CommittedGames(games, txn),
                standings |-> CommittedStandings(standings, txn),
                records_updated |-> Len(sdf)]
          ELSE [status |-> "IntegrityError", games |-> games,
                standings |-> standings, records_updated |-> 0]

\* ------------------------------------------------------------------ ScrapeLog

\* Lengths of the text of an exception (str(e)); str(TimeoutError()) is ''.
ErrorLengths == {0, 20, 1200}
\* error_msg[:1000]
MaxErrorMessage == 1000
Truncate(len) == IF len > MaxErrorMessage THEN MaxErrorMessage ELSE len

\* seasons_scraped is the sequence of seasons joined by ','; error_message is
\* << >> for None and <<n>> for a text of n characters.
SuccessLog(seasons, records_updated) ==
  [seasons_scraped |-> seasons, success |-> TRUE, error_message |-> << >>,
   records_updated |-> records_updated]

FailureLog(len) ==
  [seasons_scraped |-> << >>, success |-> FALSE,
   error_message |-> <<Truncate(len)>>, records_updated |-> 0]

\* sorted(game_scores_df['season'].unique())
UniqueSeasons(df) ==
  SelectSeq(SeasonOrder, LAMBDA s : \E r \in Range(df) : r.season = s)

\* ------------------------------------------------------------------- results

Returned(op, success, n) ==
  [op |-> op, success |-> success, records_updated |-> n, raised |-> FALSE]
Raised(op) ==
  [op |-> op, success |-> FALSE, records_updated |-> 0, raised |-> TRUE]

\* ------------------------------------------------------------------- sessions

Sessions == {1, 2}
Idle == [pc |-> "idle", df |-> << >>, txn |-> NoTxn]

\* season=None of get_standings, and the response before any read.
NoSeason == 0
NoResponse == [op |-> "none", season |-> NoSeason, value |-> << >>]

Snapshot(sc, games, standings, logs) ==
  [scores |-> sc, team_game_scores |-> games, team_standings |-> standings,
   scrape_logs |-> logs]

Init ==
  /\ team_realignment = {}
  /\ team_game_scores = {}
  /\ team_standings = << >>
  /\ scrape_logs = << >>
  /\ scores = << >>
  /\ game_scores_df = << >>
  /\ result = Returned("none", TRUE, 0)
  /\ nrefresh = 0
  /\ now_year = MostRecent
  /\ pre = Snapshot(<< >>, {}, << >>, << >>)
  /\ sess = [s \in Sessions |-> Idle]
  /\ response = NoResponse
  /\ log_faults = 0

\* ------------------------------------------------------- Realignment Registry

SeedRow(team) == CHOOSE d \in Range(REALIGNMENT_DATA) : d.team = team

\* A seed that empties the table and inserts the seed rows.
Seeded_Replaced(registry, update_existing) ==
  {REALIGNMENT_DATA[i] : i \in 1..Len(REALIGNMENT_DATA)}

\* The registry after the loop and commit of initialize_realignment.
Seeded(registry, update_existing) ==
  {IF update_existing /\ (\E d \in Range(REALIGNMENT_DATA) : d.team = r.team)
   THEN SeedRow(r.team) ELSE r : r \in registry}
    \cup {d \in Range(REALIGNMENT_DATA) : ~ \E r \in registry : r.team = d.team}

initialize_realignment ==
  \E update_existing \in BOOLEAN :
    /\ team_realignment' = Seeded(team_realignment, update_existing)
    /\ response' = [op |-> "initialize_realignment", season |-> NoSeason,
                    value |-> update_existing]
    /\ UNCHANGED <<team_game_scores, team_standings, scrape_logs, scores,
                   game_scores_df, result, nrefresh, now_year, pre, sess, log_faults>>

\* What every entry point (scrape.py, cron_refresh.py, refresh_standings_job,
\* POST /api/refresh) does before it scrapes: seed the registry when empty.
EnsureRealignment(registry) ==
  IF Cardinality(registry) = 0 THEN Seeded(registry, FALSE) ELSE registry

\* The calendar year turns while the most recent season is still running.
NewYear ==
  /\ now_year = MostRecent
  /\ now_year' = now_year + 1
  /\ UNCHANGED <<db, scores, game_scores_df, result, nrefresh, pre, sess, response, log_faults>>

\* ------------------------------------------------- refreshes, one at a time

Start ==
  /\ nrefresh < MaxRefreshes
  /\ nrefresh' = nrefresh + 1
  /\ team_realignment' = EnsureRealignment(team_realignment)
  /\ pre' = Snapshot(scores, team_game_scores, team_standings, scrape_logs)
  /\ UNCHANGED <<now_year, sess, response>>

\* nfl.load_schedules raised: nothing was loaded and nothing is written.
FetchFailed ==
  /\ scores' = << >>
  /\ game_scores_df' = << >>
  /\ UNCHANGED <<team_game_scores, team_standings>>

\* The schedule sc was loaded and run through the two loops and the commit.
Fetched(sc, df, run) ==
  /\ scores' = sc
  /\ game_scores_df' = df
  /\ team_game_scores' = run.games
  /\ team_standings' = run.standings

\* python scrape.py --season S: scrape_season(season, db), which writes no
\* ScrapeLog row and re-raises an exception to main().
scrape_season(season) ==
  /\ Start
  /\ UNCHANGED <<scrape_logs, log_faults>>
  /\ \/ /\ FetchFailed
        /\ result' = Raised("scrape_season")
     \/ \E sc \in load_schedules({season}) :
        \E df \in {create_game_scores_dataframe(sc)} :
        \E sdf \in {calculate_standings_from_scores(df)} :
        \E found \in StandingLookups(team_standings, sdf) :
        \E run \in {Reconcile(team_game_scores, team_standings, df, sdf, found)} :
          /\ Fetched(sc, df, run)
          /\ result' = IF run.status = "IntegrityError"
                       THEN Raised("scrape_season")
                       ELSE Returned("scrape_season", TRUE, run.records_updated)

\* The except branch of scrape_current_season and scrape_all_seasons:
\* rollback, a failure row in scrape_logs, a failure result.
\* When the commit of the failure row raises too, the exception leaves the
\* operation; left is the number of commits the storage will still fail.
FailureAfter(op, left) ==
  \/ \E len \in ErrorLengths :
       /\ scrape_logs' = Append(scrape_logs, FailureLog(len))
       /\ result' = Returned(op, FALSE, 0)
       /\ log_faults' = left
  \/ /\ left > 0
     /\ scrape_logs' = scrape_logs
     /\ result' = Raised(op)
     /\ log_faults' = left - 1

Failure(op) == FailureAfter(op, log_faults)

\* db.add(log); db.commit() of the success row after the batch is committed:
\* the row is stored and the success result returned, or the commit raises
\* and the except branch runs.
LogSuccess(op, seasons, n) ==
  \/ /\ scrape_logs' = Append(scrape_logs, SuccessLog(seasons, n))
     /\ result' = Returned(op, TRUE, n)
     /\ log_faults' = log_faults
  \/ /\ log_faults > 0
     /\ FailureAfter(op, log_faults - 1)

\* scrape_current_season(db): scrape_season(None, db), then the ScrapeLog row
\* of the calendar year.
scrape_current_season ==
  /\ Start
  /\ \/ /\ FetchFailed
        /\ Failure("scrape_current_season")
     \/ \E sc \in load_schedules({MostRecent}) :
        \E df \in {create_game_scores_dataframe(sc)} :
        \E sdf \in {calculate_standings_from_scores(df)} :
        \E found \in StandingLookups(team_standings, sdf) :
        \E run \in {Reconcile(team_game_scores, team_standings, df, sdf, found)} :
          /\ Fetched(sc, df, run)
          /\ IF run.status = "IntegrityError"
             THEN Failure("scrape_current_season")
             ELSE LogSuccess("scrape_current_season", <<now_year>>,
                             run.records_updated)

\* scrape_all_seasons(db): its own copy of the loops; no retained game is
\* returned as a failure, without a ScrapeLog row.
scrape_all_seasons ==
  /\ Start
  /\ \/ /\ FetchFailed
        /\ Failure("scrape_all_seasons")
     \/ \E sc \in load_schedules(Seasons) :
        \E df \in {create_game_scores_dataframe(sc)} :
        \E sdf \in {calculate_standings_from_scores(df)} :
        \E found \in StandingLookups(team_standings, sdf) :
        \E run \in {Reconcile(team_game_scores, team_standings, df, sdf, found)} :
          /\ Fetched(sc, df, run)
          /\ CASE run.status = "empty" ->
                    /\ scrape_logs' = scrape_logs
                    /\ result' = Returned("scrape_all_seasons", FALSE, 0)
                    /\ log_faults' = log_faults
               [] run.status = "IntegrityError" ->
                    Failure("scrape_all_seasons")
               [] OTHER ->
                    LogSuccess("scrape_all_seasons", UniqueSeasons(df),
                               run.records_updated)

\* Every entry point seeds the registry itself (Start); reseeding by hand is
\* followed on its own in SpecSeed.
Next ==
  \/ NewYear
  \/ \E season \in Seasons : scrape_season(season)
  \/ scrape_current_season
  \/ scrape_all_seasons

Spec == Init /\ [][Next]_vars

\* The same refreshes on a storage that may fail the commit of a ScrapeLog
\* row (a lost connection, a lock timeout) after the batch is committed.
InitLogFault ==
  /\ team_realignment = {}
  /\ team_game_scores = {}
  /\ team_standings = << >>
  /\ scrape_logs = << >>
  /\ scores = << >>
  /\ game_scores_df = << >>
  /\ result = Returned("none", TRUE, 0)
  /\ nrefresh = 0
  /\ now_year = MostRecent
  /\ pre = Snapshot(<< >>, {}, << >>, << >>)
  /\ sess = [s \in Sessions |-> Idle]
  /\ response = NoResponse
  /\ log_faults = MaxLogFaults

SpecLogFault == InitLogFault /\ [][Next]_vars

\* ----------------------------- create_game_scores_dataframe on raw schedules

\* Raw rows of any shape the provider's frame allows: either score may be
\* null, and the game may be of another type than REG.
RawUniverse ==
  {RawGame(Fixtures[i], 1, hs, as, gt) :
     i \in 1..Len(Fixtures), hs \in Scores \cup {NaN}, as \in Scores \cup {NaN},
     gt \in GameTypes}

BoundedSeqs(S, n) == UNION {[1..k -> S] : k \in 0..n}

InitDerive ==
  /\ team_realignment = {}
  /\ team_game_scores = {}
  /\ team_standings = << >>
  /\ scrape_logs = << >>
  /\ scores \in BoundedSeqs(RawUniverse, MaxRaw)
  /\ game_scores_df = << >>
  /\ result = Returned("none", TRUE, 0)
  /\ nrefresh = 0
  /\ now_year = MostRecent
  /\ pre = Snapshot(<< >>, {}, << >>, << >>)
  /\ sess = [s \in Sessions |-> Idle]
  /\ response = NoResponse
  /\ log_faults = 0

Derive ==
  /\ result.op = "none"
  /\ game_scores_df' = create_game_scores_dataframe(scores)
  /\ result' = Returned("create_game_scores_dataframe", TRUE, 0)
  /\ UNCHANGED <<db, scores, nrefresh, now_year, pre, sess, response, log_faults>>

SpecDerive == InitDerive /\ [][Derive]_vars

\* ------------------------------------- refreshes running at the same time

\* refresh_standings_job and POST /api/refresh each run scrape_current_season
\* on a session of their own, with no lock between them. A refresh is cut at
\* the places where it reads or writes committed rows: after the schedule is
\* loaded, after the game loop's queries, after the standings loop's queries,
\* and at the commit. Each loop's queries are taken together.

\* The refresh is between its first key lookup and the commit of its batch.
InReconcile(s) == sess[s].pc \in {"standings_loop", "commit"}

Finish(s) == sess' = [sess EXCEPT ![s] = Idle]

\* load_schedules and create_game_scores_dataframe; with no retained game
\* scrape_season returns 0 and the success row is logged at once.
Load(s) ==
  /\ sess[s].pc = "idle"
  /\ nrefresh < MaxRefreshes
  /\ nrefresh' = nrefresh + 1
  /\ team_realignment' = EnsureRealignment(team_realignment)
  /\ pre' = Snapshot(scores, team_game_scores, team_standings, scrape_logs)
  /\ UNCHANGED <<team_game_scores, team_standings, now_year, response>>
  /\ \/ /\ scores' = << >>
        /\ game_scores_df' = << >>
        /\ Failure("scrape_current_season")
        /\ UNCHANGED sess
     \/ \E sc \in load_schedules({MostRecent}) :
        \E df \in {create_game_scores_dataframe(sc)} :
          /\ scores' = sc
          /\ game_scores_df' = df
          /\ IF df = << >>
             THEN /\ LogSuccess("scrape_current_season", <<now_year>>, 0)
                  /\ UNCHANGED sess
             ELSE /\ sess' = [sess EXCEPT ![s] =
                                [pc |-> "game_loop", df |-> df, txn |-> NoTxn]]
                  /\ UNCHANGED <<scrape_logs, result, log_faults>>

\* A game loop that commits its rows before the standings loop has run.
GameLoop_CommitsGames(s) ==
  /\ sess[s].pc = "game_loop"
  /\ sess' = [sess EXCEPT ![s].pc = "standings_loop"]
  /\ team_game_scores' =
       CommittedGames(team_game_scores,
                      [NoTxn EXCEPT !.gupd = GameUpdates(team_game_scores, sess[s].df),
                                    !.gins = GameInserts(team_game_scores, sess[s].df)])
  /\ UNCHANGED <<team_realignment, team_standings, scrape_logs, scores,
                 game_scores_df, result, nrefresh, now_year, pre, response, log_faults>>

\* The game loop: one query per row of the frame against the committed rows.
GameLoop(s) ==
  /\ sess[s].pc = "game_loop"
  /\ sess' = [sess EXCEPT ![s].pc = "standings_loop",
                          ![s].txn.gupd = GameUpdates(team_game_scores, sess[s].df),
                          ![s].txn.gins = GameInserts(team_game_scores, sess[s].df)]
  /\ UNCHANGED <<db, scores, game_scores_df, result, nrefresh, now_year, pre, response, log_faults>>

\* The standings loop: one query per aggregate row.
StandingsLoop(s) ==
  /\ sess[s].pc = "standings_loop"
  /\ \E sdf \in {calculate_standings_from_scores(sess[s].df)} :
     \E found \in StandingLookups(team_standings, sdf) :
       sess' = [sess EXCEPT ![s].pc = "commit",
                            ![s].txn.supd = StandingUpdates(team_standings, sdf, found),
                            ![s].txn.sins = StandingInserts(sdf, found)]
  /\ UNCHANGED <<db, scores, game_scores_df, result, nrefresh, now_year, pre, response, log_faults>>

\* db.commit() of the batch, then the ScrapeLog row and its commit.
CommitBatch(s) ==
  /\ sess[s].pc = "commit"
  /\ Finish(s)
  /\ UNCHANGED <<team_realignment, scores, game_scores_df, nrefresh, now_year, pre, response>>
  /\ IF CommitOK(team_game_scores, sess[s].txn)
     THEN \E n \in {Len(calculate_standings_from_scores(sess[s].df))} :
            /\ team_game_scores' = CommittedGames(team_game_scores, sess[s].txn)
            /\ team_standings' = CommittedStandings(team_standings, sess[s].txn)
            /\ LogSuccess("scrape_current_season", <<now_year>>, n)
     ELSE /\ Failure("scrape_current_season")
          /\ UNCHANGED <<team_game_scores, team_standings>>

NextConc ==
  \E s \in Sessions :
    \/ Load(s)
    \/ GameLoop(s)
    \/ StandingsLoop(s)
    \/ CommitBatch(s)

SpecConc == Init /\ [][NextConc]_vars

\* ------------------------------------------------------------ Standings Reader

\* a < b for two fractions <<numerator, denominator>>.
FracLess(a, b) == a[1] * b[2] < b[1] * a[2]

\* A key of win_pct alone, without the tiebreaker.
KeyLess_PrimaryOnly(x, y) == FracLess(x.win_pct, y.win_pct)

\* The sort key (win_pct, in_division_win_pct) of x is below that of y.
KeyLess(x, y) ==
  \/ FracLess(x.win_pct, y.win_pct)
  \/ /\ x.win_pct = y.win_pct
     /\ FracLess(x.in_division_win_pct, y.in_division_win_pct)

\* list.sort(key=..., reverse=True): descending and stable, so entries with
\* equal keys keep the order they were appended in.
RECURSIVE InsertDesc(_, _)
InsertDesc(sorted, x) ==
  IF sorted = << >> THEN <<x>>
  ELSE IF KeyLess(Head(sorted), x) THEN <<x>> \o sorted
  ELSE <<Head(sorted)>> \o InsertDesc(Tail(sorted), x)

RECURSIVE SortDesc(_)
SortDesc(s) ==
  IF s = << >> THEN << >>
  ELSE InsertDesc(SortDesc(SubSeq(s, 1, Len(s) - 1)), s[Len(s)])

\* query.all() without ORDER BY: the rows in any order the database may
\* return them in.
QueryAll(rows) ==
  {[i \in 1..Len(rows) |-> rows[p[i]]] :
     p \in {f \in [1..Len(rows) -> 1..Len(rows)] :
              \A i, j \in 1..Len(rows) : f[i] = f[j] => i = j}}

\* The lookup with the order turned round: the first season, not the last.
MaxSeason_Ascending(standings) ==
  CHOOSE m \in {standings[i].season : i \in 1..Len(standings)} :
    \A i \in 1..Len(standings) : m <= standings[i].season

\* query(TeamStanding.season).order_by(season.desc()).first()
MaxSeason(standings) ==
  CHOOSE m \in {standings[i].season : i \in 1..Len(standings)} :
    \A i \in 1..Len(standings) : standings[i].season <= m

\* get_standings_from_db(season, db): the lists it may return.
get_standings_from_db(season) ==
  IF season # NoSeason
  THEN QueryAll(SelectSeq(team_standings, LAMBDA r : r.season = season))
  ELSE IF team_standings = << >> THEN {<< >>}
  ELSE QueryAll(SelectSeq(team_standings,
                          LAMBDA r : r.season = MaxSeason(team_standings)))

\* A map that answers with the same registry row for every team.
Realignment_AnyRow(team) == CHOOSE r \in team_realignment : TRUE

\* realignment_map[team]
Realignment(team) == CHOOSE r \in team_realignment : r.team = team

\* The entry get_standings appends for a standings dictionary.
Entry(standing) ==
  [team |-> standing.team, name |-> Realignment(standing.team).name,
   wins |-> standing.wins, losses |-> standing.losses, ties |-> standing.ties,
   win_pct |-> standing.win_pct,
   in_division_wins |-> standing.in_division_wins,
   in_division_losses |-> standing.in_division_losses,
   in_division_ties |-> standing.in_division_ties,
   in_division_win_pct |-> standing.in_division_win_pct,
   season |-> standing.season]

\* if team not in realignment_map: continue
InRegistry(standing) == \E r \in team_realignment : r.team = standing.team

\* The grouping and sorting of get_standings for the list standings_list:
\* conference -> division -> entries; the empty mapping for an empty list.
Organized(standings_list) ==
  IF standings_list = << >> THEN << >>
  ELSE LET known == SelectSeq(standings_list, InRegistry)
           conferences == {Realignment(known[i].team).conference : i \in 1..Len(known)}
           Divisions(c) ==
             {Realignment(known[i].team).division :
                i \in {j \in 1..Len(known) : Realignment(known[j].team).conference = c}}
           Members(c, d) ==
             SelectSeq(known, LAMBDA st : /\ Realignment(st.team).conference = c
                                          /\ Realignment(st.team).division = d)
       IN [c \in conferences |->
             [d \in Divisions(c) |->
                SortDesc([i \in 1..Len(Members(c, d)) |-> Entry(Members(c, d)[i])])]]

\* The same seasons in ascending order.
RECURSIVE Descending_Ascending(_)
Descending_Ascending(S) ==
  IF S = {} THEN << >>
  ELSE LET m == CHOOSE x \in S : \A y \in S : x <= y
       IN <<m>> \o Descending_Ascending(S \ {m})

\* query(distinct(TeamStanding.season)).order_by(season.desc()).all()
RECURSIVE Descending(_)
Descending(S) ==
  IF S = {} THEN << >>
  ELSE LET m == CHOOSE x \in S : \A y \in S : y <= x
       IN <<m>> \o Descending(S \ {m})

\* The season arguments of a request: omitted, or a year.
SeasonArgs == {NoSeason} \cup Seasons

get_standings ==
  \E season \in SeasonArgs :
  \E standings_list \in get_standings_from_db(season) :
    /\ response' = [op |-> "get_standings", season |-> season,
                    value |-> Organized(standings_list)]
    /\ UNCHANGED <<db, scores, game_scores_df, result, nrefresh, now_year, pre, sess, log_faults>>

get_available_seasons ==
  /\ response' = [op |-> "get_available_seasons", season |-> NoSeason,
                  value |-> Descending({team_standings[i].season :
                                          i \in 1..Len(team_standings)})]
  /\ UNCHANGED <<db, scores, game_scores_df, result, nrefresh, now_year, pre, sess, log_faults>>

\* Stored tables a reader may find: team_standings rows of registry teams and
\* of a team code the registry does not hold (a franchise's former code in an
\* old season), with any percentages, in any id order, keys possibly repeated;
\* the registry seeded or still empty.
StoredPcts == {<<<<1, 2>>, <<0, 1>>>>, <<<<1, 2>>, <<1, 1>>>>, <<<<1, 1>>, <<0, 1>>>>}
StoredTeams == {"DAL", "KC", "PIT", "OAK"}
StoredStandings ==
  {[season |-> season, team |-> team, wins |-> pcts[1][1],
    losses |-> pcts[1][2] - pcts[1][1], ties |-> 0, win_pct |-> pcts[1],
    in_division_wins |-> pcts[2][1], in_division_losses |-> 0,
    in_division_ties |-> 0, in_division_win_pct |-> pcts[2]] :
     season \in Seasons, team \in StoredTeams, pcts \in StoredPcts}

InitRead ==
  /\ team_realignment \in {{}, Seeded({}, FALSE)}
  /\ team_game_scores = {}
  /\ team_standings \in BoundedSeqs(StoredStandings, MaxStored)
  /\ scrape_logs = << >>
  /\ scores = << >>
  /\ game_scores_df = << >>
  /\ result = Returned("none", TRUE, 0)
  /\ nrefresh = 0
  /\ now_year = MostRecent
  /\ pre = Snapshot(<< >>, {}, << >>, << >>)
  /\ sess = [s \in Sessions |-> Idle]
  /\ response = NoResponse
  /\ log_faults = 0

NextRead ==
  \/ get_standings
  \/ get_available_seasons

SpecRead == InitRead /\ [][NextRead]_vars

\* ---------------------------------------------------------- Game Scores Reader

\* The team arguments of a request, and str.upper() of each.
TeamArgs == {"dal", "OAK"}
Upper(team) == IF team = "dal" THEN "DAL" ELSE team

\* gameday.isoformat(): the date as text.
IsoFormat(gameday) == [isoformat |-> gameday]

\* The division of a team in the registry; "None" without a row.
DivisionOf(team) ==
  IF \E r \in team_realignment : r.team = team
  THEN (CHOOSE r \in team_realignment : r.team = team).division
  ELSE "None"

\* order_by(TeamGameScore.gameday.desc()).all() of a set of rows; the key
\* (season, gameday, team) is unique, so the gamedays of one team and season
\* differ.
RECURSIVE GamedayDescending(_)
GamedayDescending(rows) ==
  IF rows = {} THEN << >>
  ELSE LET first == CHOOSE r \in rows : \A q \in rows : q.gameday <= r.gameday
       IN <<first>> \o GamedayDescending(rows \ {first})

\* An entry that calls every game between registry teams a division game.
ScoreEntry_AnyKnown(gs, team_division) ==
  [season |-> gs.season, gameday |-> IsoFormat(gs.gameday), score |-> gs.score,
   team |-> gs.team, opponent |-> gs.opponent,
   opponent_score |-> gs.opponent_score, is_win |-> gs.is_win,
   is_loss |-> gs.is_loss, is_tie |-> gs.is_tie,
   is_division_game |-> /\ team_division # "None"
                        /\ DivisionOf(gs.opponent) # "None"]

\* The dictionary get_game_scores builds for a stored row.
ScoreEntry(gs, team_division) ==
  [season |-> gs.season, gameday |-> IsoFormat(gs.gameday), score |-> gs.score,
   team |-> gs.team, opponent |-> gs.opponent,
   opponent_score |-> gs.opponent_score, is_win |-> gs.is_win,
   is_loss |-> gs.is_loss, is_tie |-> gs.is_tie,
   is_division_game |-> /\ team_division # "None"
                        /\ DivisionOf(gs.opponent) # "None"
                        /\ team_division = DivisionOf(gs.opponent)]

GameScores(team, season) ==
  LET game_scores == GamedayDescending({g \in team_game_scores :
                                          g.team = Upper(team) /\ g.season = season})
  IN [i \in 1..Len(game_scores) |-> ScoreEntry(game_scores[i], DivisionOf(Upper(team)))]

\* A reader that seeds the registry when it finds it empty, as the entry
\* points of the refresh do.
get_game_scores_Seeding ==
  \E team \in TeamArgs : \E season \in Seasons :
    /\ team_realignment' = EnsureRealignment(team_realignment)
    /\ response' = [op |-> "get_game_scores", season |-> season, team |-> team,
                    value |-> GameScores(team, season)]
    /\ UNCHANGED <<team_game_scores, team_standings, scrape_logs, scores,
                   game_scores_df, result, nrefresh, now_year, pre, sess, log_faults>>

get_game_scores ==
  \E team \in TeamArgs : \E season \in Seasons :
    /\ response' = [op |-> "get_game_scores", season |-> season, team |-> team,
                    value |-> GameScores(team, season)]
    /\ UNCHANGED <<db, scores, game_scores_df, result, nrefresh, now_year, pre, sess, log_faults>>

\* Stored game rows a reader may find: both rows of each of up to MaxStored
\* final games, among them games against a team the registry does not hold.
StoredGames ==
  {RawGame([season |-> season, home_team |-> teams[1], away_team |-> teams[2]],
           gameday, 1, 0, "REG") :
     season \in Seasons, gameday \in {1, 2},
     teams \in {<<"DAL", "PIT">>, <<"KC", "DAL">>, <<"OAK", "DAL">>}}

InitScores ==
  /\ team_realignment \in {{}, Seeded({}, FALSE)}
  /\ \E games \in {G \in SUBSET StoredGames : Cardinality(G) <= MaxStored} :
       /\ \A g, h \in games :
            (g # h /\ g.season = h.season /\ g.gameday = h.gameday)
              => {g.home_team, g.away_team} \cap {h.home_team, h.away_team} = {}
       /\ team_game_scores = {SideRowHome(g) : g \in games}
                               \cup {SideRowAway(g) : g \in games}
  /\ team_standings = << >>
  /\ scrape_logs = << >>
  /\ scores = << >>
  /\ game_scores_df = << >>
  /\ result = Returned("none", TRUE, 0)
  /\ nrefresh = 0
  /\ now_year = MostRecent
  /\ pre = Snapshot(<< >>, {}, << >>, << >>)
  /\ sess = [s \in Sessions |-> Idle]
  /\ response = NoResponse
  /\ log_faults = 0

SpecScores == InitScores /\ [][get_game_scores]_vars

\* ------------------------------------------- reads while a refresh is running

\* The readers open a session of their own (get_db_session) and take no lock;
\* here they run between the steps of one refresh.
NextInFlight ==
  \/ Load(1)
  \/ GameLoop(1)
  \/ StandingsLoop(1)
  \/ CommitBatch(1)
  \/ get_standings
  \/ get_available_seasons
  \/ get_game_scores

SpecInFlight == Init /\ [][NextInFlight]_vars

\* --------------------------------------------------- seeding the registry

\* Registries initialize_realignment may find: of each seeded team no row, the
\* seeded row, or a row seeded from an earlier REALIGNMENT_DATA (another
\* division, or another name); and possibly a row of a team code that is no
\* longer seeded.
FormerRows(d) ==
  {d, [d EXCEPT !.division = "Former"], [d EXCEPT !.name = "Former"]}

Registries ==
  {UNION {pick[i] : i \in 1..Len(REALIGNMENT_DATA)} \cup extra :
     pick \in [1..Len(REALIGNMENT_DATA) ->
                 {{}} \cup {{r} : r \in UNION {FormerRows(REALIGNMENT_DATA[i]) :
                                                i \in 1..Len(REALIGNMENT_DATA)}}],
     extra \in {{}, {[team |-> "OAK", conference |-> "People",
                      division |-> "Former", name |-> "Raiders"]}}}

InitSeed ==
  /\ team_realignment \in
       {reg \in Registries : \A r, q \in reg : r.team = q.team => r = q}
  /\ team_game_scores = {}
  /\ team_standings = << >>
  /\ scrape_logs = << >>
  /\ scores = << >>
  /\ game_scores_df = << >>
  /\ result = Returned("none", TRUE, 0)
  /\ nrefresh = 0
  /\ now_year = MostRecent
  /\ pre = Snapshot(<< >>, {}, << >>, << >>)
  /\ sess = [s \in Sessions |-> Idle]
  /\ response = NoResponse
  /\ log_faults = 0

SpecSeed == InitSeed /\ [][initialize_realignment]_vars

\* ====================================================================== claims

Derived == result.op = "create_game_scores_dataframe"

\* The raw rows the Outcome Deriver is to keep, in input order.
CompletedREG(g) == g.game_type = "REG" /\ g.home_score # NaN /\ g.away_score # NaN
KeptIdx == {i \in 1..Len(scores) : CompletedREG(scores[i])}

IsHomeRowOf(r, g) ==
  /\ r.season = g.season /\ r.gameday = g.gameday
  /\ r.team = g.home_team /\ r.opponent = g.away_team
  /\ r.score = g.home_score /\ r.opponent_score = g.away_score
IsAwayRowOf(r, g) ==
  /\ r.season = g.season /\ r.gameday = g.gameday
  /\ r.team = g.away_team /\ r.opponent = g.home_team
  /\ r.score = g.away_score /\ r.opponent_score = g.home_score

\* C1: create_game_scores_dataframe yields exactly two rows per retained game:
\* with n games retained, row i is the i-th retained game seen from the home
\* side and row n+i the same game seen from the away side, and the two rows'
\* flags mirror each other (win iff the other's loss, tie iff the other's tie).
C1_TwoMirroredRows ==
  Derived =>
    LET kept == SelectSeq(scores, CompletedREG)
        n    == Len(kept)
    IN /\ Len(game_scores_df) = 2 * n
       /\ \A i \in 1..n :
            LET h == game_scores_df[i]
                a == game_scores_df[n + i]
            IN /\ IsHomeRowOf(h, kept[i])
               /\ IsAwayRowOf(a, kept[i])
               /\ (h.is_win = 1) <=> (a.is_loss = 1)
               /\ (h.is_loss = 1) <=> (a.is_win = 1)
               /\ (h.is_tie = 1) <=> (a.is_tie = 1)

\* Two games were retained, one won by the home side and one tied.
C1_Witness ==
  /\ Derived
  /\ Len(game_scores_df) = 4
  /\ game_scores_df[1].is_win = 1
  /\ game_scores_df[2].is_tie = 1

\* C2: a raw game is retained iff it is REG with both scores non-null: the
\* frame has two rows per such game and no row that comes from another game,
\* nothing is raised, and with no such game the frame is empty.
C2_RetainedIffCompletedREG ==
  Derived =>
    /\ ~ result.raised
    /\ Len(game_scores_df) = 2 * Cardinality(KeptIdx)
    /\ \A i \in KeptIdx :
         /\ \E j \in 1..Len(game_scores_df) : IsHomeRowOf(game_scores_df[j], scores[i])
         /\ \E j \in 1..Len(game_scores_df) : IsAwayRowOf(game_scores_df[j], scores[i])
    /\ \A j \in 1..Len(game_scores_df) :
         \E i \in KeptIdx : \/ IsHomeRowOf(game_scores_df[j], scores[i])
                            \/ IsAwayRowOf(game_scores_df[j], scores[i])
    /\ (KeptIdx = {} => game_scores_df = << >>)

\* A completed REG game was kept while a completed game of another type was
\* dropped.
C2_Witness ==
  /\ Derived
  /\ Len(scores) = 2
  /\ Len(game_scores_df) = 2
  /\ \E i \in 1..2 : /\ scores[i].game_type = "POST"
                     /\ scores[i].home_score # NaN
                     /\ scores[i].away_score # NaN

\* No retained game among a non-empty input: an empty frame.
C2_WitnessEmpty ==
  Derived /\ Len(scores) = 2 /\ game_scores_df = << >>

\* C3: every stored team_game_scores row has exactly one of is_win, is_loss,
\* is_tie equal to 1, the one its own stored scores give.
C3_FlagsAgreeWithScores ==
  \A g \in team_game_scores :
    /\ {g.is_win, g.is_loss, g.is_tie} \subseteq {0, 1}
    /\ g.is_win + g.is_loss + g.is_tie = 1
    /\ (g.is_win = 1) <=> (g.score > g.opponent_score)
    /\ (g.is_loss = 1) <=> (g.score < g.opponent_score)
    /\ (g.is_tie = 1) <=> (g.score = g.opponent_score)

\* A stored row was updated in place by the last refresh: the row of its key
\* was a win before and is a tie now.
C3_Witness ==
  \E g \in team_game_scores : \E o \in pre.team_game_scores :
    /\ GameKey(g) = GameKey(o)
    /\ o.is_win = 1
    /\ g.is_tie = 1

GamesOf(season, team) ==
  {g \in team_game_scores : g.season = season /\ g.team = team}

\* C4: for every stored team_standings row, wins + losses + ties is the
\* number of stored team_game_scores rows of its (season, team).
C4_TotalsEqualStoredGames ==
  \A i \in 1..Len(team_standings) :
    LET st == team_standings[i]
    IN st.wins + st.losses + st.ties = Cardinality(GamesOf(st.season, st.team))

\* C5: for every stored team_standings row with n = wins + losses + ties,
\* win_pct = (wins + ties / 2) / n when n > 0, that is 2 * n * win_pct =
\* 2 * wins + ties, and win_pct = 0 when n = 0.
C5_WinPct ==
  \A i \in 1..Len(team_standings) :
    LET st == team_standings[i]
        n  == st.wins + st.losses + st.ties
    IN /\ st.win_pct[2] > 0
       /\ n > 0 => 2 * n * st.win_pct[1] = (2 * st.wins + st.ties) * st.win_pct[2]
       /\ n = 0 => st.win_pct[1] = 0

\* A stored row with a win and a tie: the tie counts one half, 3/4 in all.
C5_Witness ==
  \E i \in 1..Len(team_standings) :
    /\ team_standings[i].wins = 1
    /\ team_standings[i].ties = 1
    /\ team_standings[i].losses = 0
    /\ team_standings[i].win_pct = <<3, 4>>

\* Both teams are in the registry, with the same division.
InDivision(team, opponent) ==
  \E a \in team_realignment : \E b \in team_realignment :
    a.team = team /\ b.team = opponent /\ a.division = b.division

\* The rows of one team and season in the frame of the last fetch that are
\* in-division games and have the flag set.
InDivisionCount(season, team, flag) ==
  Cardinality({j \in 1..Len(game_scores_df) :
                 /\ game_scores_df[j].season = season
                 /\ game_scores_df[j].team = team
                 /\ InDivision(team, game_scores_df[j].opponent)
                 /\ game_scores_df[j][flag] = 1})

Succeeded ==
  /\ result.op \in {"scrape_season", "scrape_current_season", "scrape_all_seasons"}
  /\ result.success
  /\ game_scores_df # << >>

\* C6: after a successful refresh, for every (season, team) of the retained
\* games, the stored in_division_wins / losses / ties are the numbers of that
\* team's in-division win / loss / tie rows, and in_division_win_pct is the
\* percentage of those totals.
C6_InDivisionTotals ==
  Succeeded =>
    \A j \in 1..Len(game_scores_df) :
      \A i \in 1..Len(team_standings) :
        LET st == team_standings[i]
            w  == InDivisionCount(st.season, st.team, "is_win")
            l  == InDivisionCount(st.season, st.team, "is_loss")
            t  == InDivisionCount(st.season, st.team, "is_tie")
        IN (st.season = game_scores_df[j].season /\ st.team = game_scores_df[j].team)
             => /\ st.in_division_wins = w
                /\ st.in_division_losses = l
                /\ st.in_division_ties = t
                /\ st.in_division_win_pct = Pct(w, l, t)

\* C7: every stored team_standings row has in_division_wins <= wins,
\* in_division_losses <= losses and in_division_ties <= ties.
C7_InDivisionWithinTotals ==
  \A i \in 1..Len(team_standings) :
    /\ team_standings[i].in_division_wins <= team_standings[i].wins
    /\ team_standings[i].in_division_losses <= team_standings[i].losses
    /\ team_standings[i].in_division_ties <= team_standings[i].ties

\* A row whose wins went from 1 to 0 when a later refresh overwrote it.
C7_Witness ==
  \E i \in 1..Len(pre.team_standings) :
    /\ pre.team_standings[i].wins = 1
    /\ team_standings[i].wins = 0
    /\ team_standings[i].ties = 1

\* The columns of team_standings the claim speaks of, row by row.
Totals(standings) ==
  [i \in 1..Len(standings) |->
     [season |-> standings[i].season, team |-> standings[i].team,
      wins |-> standings[i].wins, losses |-> standings[i].losses,
      ties |-> standings[i].ties, win_pct |-> standings[i].win_pct]]

\* The last operation was a refresh that loaded the very schedule the
\* refresh before it had loaded.
Repeated ==
  /\ nrefresh >= 2
  /\ result.op \in {"scrape_season", "scrape_current_season", "scrape_all_seasons"}
  /\ scores # << >>
  /\ scores = pre.scores

\* C8: a refresh that loads the same source data as the refresh before it
\* leaves the stored team_game_scores rows and every team_standings row's
\* season, team, wins, losses, ties and win_pct as the first run left them.
C8_Idempotent ==
  Repeated =>
    /\ team_game_scores = pre.team_game_scores
    /\ Totals(team_standings) = Totals(pre.team_standings)

\* The repeated refresh found game rows and standings rows to write again.
C8_Witness ==
  /\ Repeated
  /\ result.success
  /\ result.records_updated = 3
  /\ Cardinality(team_game_scores) = 4

\* C9: storage holds at most one team_standings row per (season, team) and at
\* most one team_game_scores row per (season, gameday, team), also when the
\* steps of two refreshes on separate sessions interleave.
C9_OneRowPerKey ==
  /\ \A i, j \in 1..Len(team_standings) :
       (/\ team_standings[i].season = team_standings[j].season
        /\ team_standings[i].team = team_standings[j].team) => i = j
  /\ \A g, h \in team_game_scores : GameKey(g) = GameKey(h) => g = h

\* C10: no two refreshes of the same season are inside the reconcile step
\* (between the first key lookup and the commit of the batch) at once.
C10_MutualExclusion ==
  \A s, t \in Sessions :
    (/\ s # t
     /\ InReconcile(s)
     /\ InReconcile(t)
     /\ \E r \in Range(sess[s].df) : \E q \in Range(sess[t].df) : r.season = q.season)
      => FALSE

\* C11: a refresh is atomic for the stored team_game_scores and
\* team_standings rows. The rows a reader can see change only in the step
\* that commits a refresh's batch, and that step stores a row for every key
\* of the refresh's two frames; a refresh that fails before or at its commit
\* changes neither table.
C11_AtomicRefresh ==
  [][(team_game_scores' # team_game_scores \/ team_standings' # team_standings) =>
       \E s \in Sessions :
         /\ sess[s].pc = "commit"
         /\ sess'[s].pc = "idle"
         /\ result'.success
         /\ \A r \in Range(sess[s].df) :
              /\ \E g \in team_game_scores' : GameKey(g) = GameKey(r)
              /\ \E i \in 1..Len(team_standings') :
                   /\ team_standings'[i].season = r.season
                   /\ team_standings'[i].team = r.team]_vars

\* A refresh has built its whole batch, game rows and standings rows, and a
\* reader still sees neither table changed.
C11_Witness ==
  \E s \in Sessions :
    /\ sess[s].pc = "commit"
    /\ sess[s].txn.gins # << >>
    /\ sess[s].txn.sins # << >>
    /\ team_game_scores = {}
    /\ team_standings = << >>

\* load_schedules returns at least one row for every season asked for, so an
\* operation that ended with nothing loaded is one whose fetch raised.
FetchRaised(op) == result.op = op /\ scores = << >>

RowsAsFound ==
  /\ team_game_scores = pre.team_game_scores
  /\ team_standings = pre.team_standings

\* C12: when the fetch raises during scrape_current_season or
\* scrape_all_seasons, the operation returns success = false with
\* records_updated = 0, appends exactly one scrape_logs row with success =
\* false, records_updated = 0 and a non-empty error_message of at most 1000
\* characters, and adds or modifies no team_standings or team_game_scores row.
C12_FetchFailureLogged ==
  \A op \in {"scrape_current_season", "scrape_all_seasons"} :
    FetchRaised(op) =>
      /\ ~ result.raised
      /\ ~ result.success
      /\ result.records_updated = 0
      /\ Len(scrape_logs) = Len(pre.scrape_logs) + 1
      /\ SubSeq(scrape_logs, 1, Len(pre.scrape_logs)) = pre.scrape_logs
      /\ LET log == scrape_logs[Len(scrape_logs)]
         IN /\ ~ log.success
            /\ log.records_updated = 0
            /\ Len(log.error_message) = 1
            /\ log.error_message[1] > 0
            /\ log.error_message[1] <= 1000
      /\ RowsAsFound

RefreshOps == {"scrape_season", "scrape_current_season", "scrape_all_seasons"}

\* C13: every refresh attempt, through scrape_season, scrape_current_season
\* or scrape_all_seasons, and whether it succeeds, fails or retains no game,
\* appends exactly one scrape_logs row and leaves the rows before it as they
\* were, so the number of scrape_logs rows is the number of completed refresh
\* attempts.
C13_OneLogPerAttempt ==
  /\ Len(scrape_logs) = nrefresh
  /\ result.op \in RefreshOps =>
       /\ Len(scrape_logs) = Len(pre.scrape_logs) + 1
       /\ SubSeq(scrape_logs, 1, Len(pre.scrape_logs)) = pre.scrape_logs

\* The operation loaded a schedule of which no game was retained.
ZeroRetained(op) ==
  /\ result.op = op
  /\ scores # << >>
  /\ game_scores_df = << >>

\* C14: a refresh whose fetch succeeds but yields no retained game returns
\* success with records_updated = 0 and leaves the stored team_game_scores
\* and team_standings rows as they were, for every refresh entry point.
C14_ZeroRetainedSucceeds ==
  \A op \in RefreshOps :
    ZeroRetained(op) =>
      /\ ~ result.raised
      /\ result.success
      /\ result.records_updated = 0
      /\ RowsAsFound

\* C15: no refresh operation lets an exception escape to its caller; a
\* failure ends in a returned result with success = false.
C15_NoExceptionEscapes ==
  result.op \in RefreshOps => ~ result.raised

StoredSeasons == {team_standings[i].season : i \in 1..Len(team_standings)}

\* The season a request for `season` is about: the one given, or the largest
\* stored one when it is omitted.
IsResolved(season, y) ==
  IF season # NoSeason THEN y = season
  ELSE y \in StoredSeasons /\ \A z \in StoredSeasons : z <= y

\* Every entry of a returned mapping, with the conference and division it is
\* listed under.
Listed(value) ==
  UNION {UNION {{[conference |-> c, division |-> d, entry |-> value[c][d][i]] :
                   i \in 1..Len(value[c][d])} :
                d \in DOMAIN value[c]} :
         c \in DOMAIN value}

GotStandings == response.op = "get_standings"

\* C16: get_standings with the season omitted returns rows of the largest
\* stored season only, and with a season given rows of that season only; when
\* no team_standings row is stored, or none for the season asked for, it
\* returns the empty mapping.
C16_ResolvedSeason ==
  GotStandings =>
    /\ \A l \in Listed(response.value) : IsResolved(response.season, l.entry.season)
    /\ (~ \E y \in StoredSeasons : IsResolved(response.season, y)) =>
         DOMAIN response.value = {}
    /\ \A i \in 1..Len(team_standings) :
         (/\ IsResolved(response.season, team_standings[i].season)
          /\ \E r \in team_realignment : r.team = team_standings[i].team)
           => \E l \in Listed(response.value) :
                l.entry.season = team_standings[i].season

\* The season was omitted while two seasons were stored, and rows came back.
C16_Witness ==
  /\ GotStandings
  /\ response.season = NoSeason
  /\ StoredSeasons = Seasons
  /\ Listed(response.value) # {}

\* A season was asked for that has no stored row, though another has.
C16_WitnessEmpty ==
  /\ GotStandings
  /\ response.season = 2023
  /\ StoredSeasons = {2024}
  /\ team_realignment # {}
  /\ DOMAIN response.value = {}

\* C17: the mapping get_standings returns has an entry for a team if and only
\* if the team has a team_standings row of the resolved season and a
\* team_realignment row; every entry is listed under the conference and the
\* division of its team's team_realignment row, and no team without such a
\* row is listed.
C17_RegistryGrouping ==
  GotStandings =>
    /\ \A team \in StoredTeams :
         (\E l \in Listed(response.value) : l.entry.team = team)
           <=> /\ \E r \in team_realignment : r.team = team
               /\ \E i \in 1..Len(team_standings) :
                    /\ team_standings[i].team = team
                    /\ IsResolved(response.season, team_standings[i].season)
    /\ \A l \in Listed(response.value) :
         \E r \in team_realignment :
           /\ r.team = l.entry.team
           /\ r.conference = l.conference
           /\ r.division = l.division

\* Rows of a registry team and of a team the registry does not hold were
\* stored for the season; the first is listed, in a division of its own.
C17_Witness ==
  /\ GotStandings
  /\ response.season = 2024
  /\ \E i, j \in 1..Len(team_standings) :
       /\ team_standings[i].season = 2024 /\ team_standings[i].team = "OAK"
       /\ team_standings[j].season = 2024 /\ team_standings[j].team = "KC"
  /\ \E l \in Listed(response.value) :
       l.entry.team = "KC" /\ l.conference = "People" /\ l.division = "People"

\* C18: every division list get_standings returns is in descending order of
\* (win_pct, in_division_win_pct): of two adjacent entries the first has the
\* larger win_pct, or the same win_pct and an in_division_win_pct at least as
\* large.
C18_DivisionOrder ==
  GotStandings =>
    \A c \in DOMAIN response.value : \A d \in DOMAIN response.value[c] :
      LET list == response.value[c][d]
      IN \A i \in 1..Len(list) - 1 :
           \/ FracLess(list[i + 1].win_pct, list[i].win_pct)
           \/ /\ list[i].win_pct = list[i + 1].win_pct
              /\ ~ FracLess(list[i].in_division_win_pct,
                            list[i + 1].in_division_win_pct)

\* Two teams of one division with the same win_pct were stored with the
\* lower in_division_win_pct first, and are listed with the higher first.
C18_Witness ==
  /\ GotStandings
  /\ Len(team_standings) = 2
  /\ team_standings[1].win_pct = team_standings[2].win_pct
  /\ FracLess(team_standings[1].in_division_win_pct,
              team_standings[2].in_division_win_pct)
  /\ \E c \in DOMAIN response.value : \E d \in DOMAIN response.value[c] :
       /\ Len(response.value[c][d]) = 2
       /\ response.value[c][d][1].team = team_standings[2].team
       /\ response.value[c][d][2].team = team_standings[1].team

\* C19: get_standings is deterministic: a call with the same season against
\* the same stored team_standings and team_realignment rows returns the same
\* mapping, with teams of equal (win_pct, in_division_win_pct) in the same
\* order.
C19_Deterministic ==
  GotStandings =>
    \A standings_list \in get_standings_from_db(response.season) :
      Organized(standings_list) = response.value

StoredSeasonsDescending(list) ==
  /\ {list[i] : i \in 1..Len(list)} = StoredSeasons
  /\ \A i, j \in 1..Len(list) : i < j => list[i] > list[j]

\* C20: get_available_seasons returns the season values of the stored
\* team_standings rows, each once, in strictly descending order, and the
\* empty list when no row is stored.
C20_AvailableSeasons ==
  response.op = "get_available_seasons" =>
    /\ StoredSeasonsDescending(response.value)
    /\ team_standings = << >> => response.value = << >>

\* Two rows of the older season and none of the newer one stored first: both
\* seasons are returned, the newer first.
C20_Witness ==
  /\ response.op = "get_available_seasons"
  /\ Len(team_standings) = 2
  /\ team_standings[1].season = 2023
  /\ team_standings[2].season = 2024
  /\ response.value = <<2024, 2023>>

SeededTeams == {REALIGNMENT_DATA[i].team : i \in 1..Len(REALIGNMENT_DATA)}

\* C21: initialize_realignment is an idempotent seed. After a call the
\* registry holds at most one row per team code and a row for every seeded
\* team, and no row was deleted; with update_existing false every row that
\* was present is unchanged and only rows of missing seeded teams are added;
\* with update_existing true every seeded team's conference, division and name
\* are the seed values; a second call with the same flag changes nothing.
C21_IdempotentSeed ==
  [][response'.op = "initialize_realignment" =>
       /\ \A r, q \in team_realignment' : r.team = q.team => r = q
       /\ \A t \in SeededTeams : \E r \in team_realignment' : r.team = t
       /\ \A r \in team_realignment : \E q \in team_realignment' : q.team = r.team
       /\ \A r \in team_realignment : r.team \notin SeededTeams => r \in team_realignment'
       /\ ~ response'.value =>
            /\ team_realignment \subseteq team_realignment'
            /\ \A q \in team_realignment' \ team_realignment :
                 /\ \E i \in 1..Len(REALIGNMENT_DATA) : q = REALIGNMENT_DATA[i]
                 /\ ~ \E r \in team_realignment : r.team = q.team
       /\ response'.value =>
            \A i \in 1..Len(REALIGNMENT_DATA) : REALIGNMENT_DATA[i] \in team_realignment'
       /\ Seeded(team_realignment', response'.value) = team_realignment'
    ]_vars

\* A call without update_existing found a row of an earlier seed for one team
\* and no row for another: the first is kept as it was, the second is seeded.
C21_Witness ==
  /\ response.op = "initialize_realignment"
  /\ ~ response.value
  /\ \E r \in team_realignment : r.team = "DAL" /\ r.division = "Former"
  /\ \E r \in team_realignment : r.team = "OAK"
  /\ \A t \in SeededTeams : \E r \in team_realignment : r.team = t

Readers == {"get_standings", "get_available_seasons", "get_game_scores"}

\* C22: reads are pure. A step in which get_standings, get_available_seasons
\* or get_game_scores returns, whether a refresh holds an uncommitted batch
\* at that moment or not, leaves every team_game_scores, team_standings,
\* team_realignment and scrape_logs row as it was, and leaves the refresh in
\* flight where it was. (The readers take no lock: their actions have no
\* precondition on the state of a refresh.)
C22_ReadsPure ==
  [][(response' # response /\ response'.op \in Readers) =>
       /\ team_realignment' = team_realignment
       /\ team_game_scores' = team_game_scores
       /\ team_standings' = team_standings
       /\ scrape_logs' = scrape_logs
       /\ sess' = sess]_vars

\* A refresh holds its batch uncommitted and the last read was answered from
\* the committed rows, which the batch has not reached.
C22_Witness ==
  /\ sess[1].pc = "commit"
  /\ sess[1].txn.gins # << >>
  /\ response.op = "get_available_seasons"
  /\ response.value = << >>
  /\ team_standings = << >>
  /\ scrape_logs = << >>

\* C23: stored team_game_scores rows are pairwise mirrored: for every stored
\* row of team A against B there is a stored row of the same season and
\* gameday of team B against A with the two scores exchanged, the win and
\* loss flags swapped and the tie flag equal.
C23_StoredRowsMirrored ==
  \A g \in team_game_scores :
    \E h \in team_game_scores :
      /\ h.season = g.season
      /\ h.gameday = g.gameday
      /\ h.team = g.opponent
      /\ h.opponent = g.team
      /\ h.score = g.opponent_score
      /\ h.opponent_score = g.score
      /\ h.is_win = g.is_loss
      /\ h.is_loss = g.is_win
      /\ h.is_tie = g.is_tie

\* The number of rows of the last frame of a team in a season with a flag set.
FetchedCount(season, team, flag) ==
  Cardinality({j \in 1..Len(game_scores_df) :
                 /\ game_scores_df[j].season = season
                 /\ game_scores_df[j].team = team
                 /\ game_scores_df[j][flag] = 1})

\* C24: aggregates are overwritten, never incremented. After a successful
\* refresh, for every (season, team) of the retained fetched games there is
\* a stored team_standings row, and the wins, losses, ties and win_pct of
\* every such row are the aggregation of the games of that fetch alone; and
\* every key of the fetch is stored with the scores and flags of a row of the
\* fetch, so a corrected score replaces the one stored before.
C24_Overwritten ==
  Succeeded =>
    \A r \in Range(game_scores_df) :
      /\ \E i \in 1..Len(team_standings) :
           team_standings[i].season = r.season /\ team_standings[i].team = r.team
      /\ \A i \in 1..Len(team_standings) :
           (team_standings[i].season = r.season /\ team_standings[i].team = r.team) =>
             LET w == FetchedCount(r.season, r.team, "is_win")
                 l == FetchedCount(r.season, r.team, "is_loss")
                 t == FetchedCount(r.season, r.team, "is_tie")
                 st == team_standings[i]
             IN /\ st.wins = w
                /\ st.losses = l
                /\ st.ties = t
                /\ 2 * (w + l + t) * st.win_pct[1] = (2 * w + t) * st.win_pct[2]
      /\ \E g \in team_game_scores : \E q \in Range(game_scores_df) :
           GameKey(g) = GameKey(r) /\ g = q

\* A game stored as a 1-0 win came back as a 1-1 tie: the stored row is the
\* tie and the winner's standing of one win is now one tie.
C24_Witness ==
  /\ Succeeded
  /\ \E g \in team_game_scores : \E o \in pre.team_game_scores :
       /\ GameKey(g) = GameKey(o)
       /\ o.score = 1 /\ o.opponent_score = 0
       /\ g.score = 1 /\ g.opponent_score = 1
       /\ \E i \in 1..Len(pre.team_standings) :
            /\ pre.team_standings[i].season = g.season
            /\ pre.team_standings[i].team = g.team
            /\ pre.team_standings[i].wins = 1
            /\ pre.team_standings[i].ties = 0
            /\ team_standings[i].wins = 0
            /\ team_standings[i].ties = 1
            /\ team_standings[i].win_pct = <<1, 2>>

\* The last operation appended a row to scrape_logs.
Logged == Len(scrape_logs) = Len(pre.scrape_logs) + 1

\* C25: the scrape_logs row appended after a successful refresh has success
\* = true, a seasons_scraped that lists exactly the seasons whose
\* team_game_scores and team_standings rows the refresh upserted, and the
\* records_updated the operation returned.
C25_SuccessLog ==
  (Succeeded /\ Logged) =>
    LET log == scrape_logs[Len(scrape_logs)]
    IN /\ log.success
       /\ Range(log.seasons_scraped) = {r.season : r \in Range(game_scores_df)}
       /\ log.records_updated = result.records_updated

StandingKeys(standings) ==
  {<<standings[i].season, standings[i].team>> : i \in 1..Len(standings)}

\* C26: stored team_game_scores and team_standings rows are never deleted:
\* over every step of a refresh, successful or failed, the stored (season,
\* gameday, team) keys and the stored (season, team) keys grow or stay the
\* same, and no team_standings row loses its place.
C26_NeverDeleted ==
  [][/\ {GameKey(g) : g \in team_game_scores}
          \subseteq {GameKey(g) : g \in team_game_scores'}
     /\ StandingKeys(team_standings) \subseteq StandingKeys(team_standings')
     /\ Len(team_standings) <= Len(team_standings')]_vars

\* A successful refresh whose fetch no longer holds a game stored before: the
\* rows of that game are still stored.
C26_Witness ==
  /\ Succeeded
  /\ \E g \in pre.team_game_scores :
       /\ g \in team_game_scores
       /\ ~ \E r \in Range(game_scores_df) : GameKey(r) = GameKey(g)
       /\ \E r \in Range(game_scores_df) : r.season = g.season /\ r.team = g.team

GotGameScores == response.op = "get_game_scores"

\* The registry holds both teams and gives them the same division.
SameDivision(team, opponent) ==
  \E r, q \in team_realignment :
    r.team = team /\ q.team = opponent /\ r.division = q.division

\* C27: get_game_scores(team, season) returns exactly the stored
\* team_game_scores rows of the upper-cased team and the season, in
\* descending order of gameday, and marks a row is_division_game if and only
\* if the team and the row's opponent both have a registry row and the two
\* have the same division.
C27_GameScores ==
  GotGameScores =>
    LET value == response.value
        stored == {g \in team_game_scores :
                     g.team = Upper(response.team) /\ g.season = response.season}
    IN /\ Len(value) = Cardinality(stored)
       /\ \A g \in stored :
            \E i \in 1..Len(value) :
              /\ value[i].gameday = IsoFormat(g.gameday)
              /\ value[i].season = g.season
              /\ value[i].team = g.team
              /\ value[i].opponent = g.opponent
              /\ value[i].score = g.score
              /\ value[i].opponent_score = g.opponent_score
              /\ value[i].is_win = g.is_win
              /\ value[i].is_loss = g.is_loss
              /\ value[i].is_tie = g.is_tie
       /\ \A i, j \in 1..Len(value) :
            i < j => value[i].gameday.isoformat > value[j].gameday.isoformat
       /\ \A i \in 1..Len(value) :
            value[i].is_division_game
              <=> SameDivision(Upper(response.team), value[i].opponent)

\* The games of "dal" were asked for with a division rival and a team the
\* registry does not hold among the opponents: the later game comes first,
\* the rival's game is a division game and the other is not.
C27_Witness ==
  /\ GotGameScores
  /\ response.team = "dal"
  /\ Len(response.value) = 2
  /\ response.value[1].opponent = "OAK"
  /\ ~ response.value[1].is_division_game
  /\ response.value[2].opponent = "PIT"
  /\ response.value[2].is_division_game

\* The operations that log their outcome and report it as a result.
LoggingOps == {"scrape_current_season", "scrape_all_seasons"}

\* scrape_current_season or scrape_all_seasons has returned success=false.
ReturnedFailure ==
  /\ result.op \in LoggingOps
  /\ ~ result.raised
  /\ ~ result.success

\* C28: whenever scrape_current_season or scrape_all_seasons returns
\* success=false, the stored game rows and standings rows are the ones stored
\* before the operation started, also when the batch was committed and the
\* write of the success ScrapeLog row failed after it.
C28_FailureLeavesRows ==
  ReturnedFailure =>
    /\ team_game_scores = pre.team_game_scores
    /\ team_standings = pre.team_standings

\* The (season, team) pairs of the retained games of the schedule loaded.
RetainedPairs ==
  UNION {{<<scores[i].season, scores[i].home_team>>,
          <<scores[i].season, scores[i].away_team>>} :
           i \in {j \in 1..Len(scores) : Retained(scores[j])}}

\* C29: the records_updated a successful refresh returns is the number of
\* distinct (season, team) pairs among the retained games of its fetch,
\* whatever the number of team_game_scores rows inserted or updated and
\* whether or not the team_standings rows existed before.
C29_RecordsUpdated ==
  (result.op \in RefreshOps /\ result.success /\ ~ result.raised) =>
    result.records_updated = Cardinality(RetainedPairs)

\* A successful refresh of two games that share a team, every standings row
\* of which was stored before: three pairs counted, four game rows, no insert.
C29_Witness ==
  /\ Succeeded
  /\ result.records_updated = 3
  /\ Len(game_scores_df) = 4
  /\ Len(team_standings) = Len(pre.team_standings)
  /\ StandingKeys(team_standings) = StandingKeys(pre.team_standings)

\* The team has a retained game in the schedule loaded.
HasRetained(team) ==
  \E i \in 1..Len(scores) :
    /\ Retained(scores[i])
    /\ team \in {scores[i].home_team, scores[i].away_team}

\* A row of season S and of a team with a retained game: the only rows
\* scrape_season(S) may write.
InFetch(r, S) == r.season = S /\ HasRetained(r.team)

\* C30: after scrape_season(S) whose fetch returns only season-S games, every
\* stored team_game_scores and team_standings row of another season, and
\* every stored row of season S of a team without a retained game in the
\* fetch, is as it was before and no such row was added; every
\* team_realignment row stored before a refresh is stored unchanged after it,
\* and a registry that was not empty is left as it was.
C30_OnlyFetchedSeason ==
  /\ [](result.op = "scrape_season" =>
        \A S \in Seasons :
          (\A i \in 1..Len(scores) : scores[i].season = S) =>
            /\ {g \in team_game_scores : ~ InFetch(g, S)}
                 = {g \in pre.team_game_scores : ~ InFetch(g, S)}
            /\ Len(team_standings) >= Len(pre.team_standings)
            /\ \A i \in 1..Len(team_standings) :
                 ~ InFetch(team_standings[i], S) =>
                   /\ i <= Len(pre.team_standings)
                   /\ team_standings[i] = pre.team_standings[i]
            /\ \A i \in 1..Len(pre.team_standings) :
                 ~ InFetch(pre.team_standings[i], S) =>
                   team_standings[i] = pre.team_standings[i])
  /\ [][(result'.op = "scrape_season" /\ nrefresh' # nrefresh) =>
          /\ team_realignment \subseteq team_realignment'
          /\ team_realignment # {} => team_realignment' = team_realignment]_vars

\* scrape_season(2024) has rewritten a row of DAL while rows of season 2023
\* and the rows of KC, whose 2024 game is not retained in this fetch, are
\* stored as before.
C30_Witness ==
  /\ result.op = "scrape_season"
  /\ result.success
  /\ \A i \in 1..Len(scores) : scores[i].season = 2024
  /\ team_game_scores # pre.team_game_scores
  /\ team_standings # pre.team_standings
  /\ ~ HasRetained("KC")
  /\ \E g \in pre.team_game_scores : g.season = 2024 /\ g.team = "KC"
  /\ \E i \in 1..Len(pre.team_standings) :
       pre.team_standings[i].season = 2024 /\ pre.team_standings[i].team = "KC"
  /\ \E i \in 1..Len(pre.team_standings) : pre.team_standings[i].season = 2023
  /\ \E g \in pre.team_game_scores : g.season = 2023

====
